---- MODULE Spec2Model ----
(***************************************************************************)
(* A model of src/lab_77.py: the MyFile resource accessor (local files in  *)
(* read / write / append mode, remote pages in url mode), the link counter *)
(* and the interactive menu that drives them.                              *)
(*                                                                         *)
(* Text is a sequence of tokens.  A token is one character ("a", LF, CR,   *)
(* a quote, ...) or a literal the regular expressions of count_urls treat  *)
(* as a unit ("href=", "http://").  Paths are token sequences too:         *)
(* <<"p", "/", "q">> is the path p/q.                                      *)
(*                                                                         *)
(* The file system is the one a non-privileged process on a POSIX system   *)
(* sees: os.access answers from the permission bits and os.linesep is LF.  *)
(*                                                                         *)
(* Specifications: Spec, the data operations of a handle of any mode;      *)
(* SpecFile, the file modes with the context manager and every content;    *)
(* SpecCount, count_urls over generated pages; SpecMenu, the menu.         *)
(* The methods are written as chains of operators that hand each           *)
(* intermediate result on as a parameter, one operator per stretch of the  *)
(* method.                                                                 *)
(***************************************************************************)
EXTENDS Integers, Sequences, FiniteSets, TLC

(* ------------------------------ bounds -------------------------------- *)

\* longest file content an append may build up
MaxLen == 3
\* most streams that may be open and no longer referenced by a handle
MaxUnref == 1
\* most fragments of a generated page (specification SpecCount)
MaxFrags == 2

(* ------------------------------ text ---------------------------------- *)

LF == "\n"
CR == "\r"
QUOTE == "\""

\* os.linesep of the platform the model describes (POSIX)
LineSep == <<LF>>

\* text-mode write with newline=None: every "\n" becomes os.linesep
RECURSIVE TranslateOut(_)
TranslateOut(s) ==
    IF s = <<>> THEN <<>>
    ELSE (IF Head(s) = LF THEN LineSep ELSE <<Head(s)>>) \o TranslateOut(Tail(s))

\* text-mode read with newline=None (universal newlines): "\r\n" and a
\* lone "\r" both come back as "\n"
RECURSIVE TranslateIn(_)
TranslateIn(s) ==
    IF s = <<>> THEN <<>>
    ELSE IF Head(s) = CR
         THEN IF Len(s) >= 2 /\ s[2] = LF
              THEN <<LF>> \o TranslateIn(Tail(Tail(s)))
              ELSE <<LF>> \o TranslateIn(Tail(s))
         ELSE <<Head(s)>> \o TranslateIn(Tail(s))

(* --------------------------- file system ------------------------------ *)

P == <<"p">>
PQ == <<"p", "/", "q">>
Dot == <<".">>
\* the default name the menu saves the page of http://u under
D == <<"u", "_content.html">>
FsPaths == {P, PQ, D}
\* the paths the callers of the accessor pass
CallPaths == {P, PQ}

NoNode == [kind |-> "none", w |-> TRUE, r |-> TRUE, data |-> <<>>]
NewFile == [kind |-> "file", w |-> TRUE, r |-> TRUE, data |-> <<>>]
NewDir == [kind |-> "dir", w |-> TRUE, r |-> TRUE, data |-> <<>>]

LastSlash(path) ==
    LET S == {i \in 1..Len(path) : path[i] = "/"}
    IN IF S = {} THEN 0 ELSE CHOOSE i \in S : \A j \in S : j <= i

\* os.path.dirname
dirname(path) ==
    IF LastSlash(path) = 0 THEN <<>> ELSE SubSeq(path, 1, LastSlash(path) - 1)

\* dirname(filepath) or '.'
dirname_or_dot(path) == IF dirname(path) = <<>> THEN Dot ELSE dirname(path)

\* os.path.exists
path_exists(f, path) ==
    IF path = Dot THEN TRUE
    ELSE IF path \in FsPaths THEN f.node[path].kind # "none"
    ELSE FALSE

\* os.path.isdir
path_isdir(f, path) ==
    IF path = Dot THEN TRUE
    ELSE IF path \in FsPaths THEN f.node[path].kind = "dir"
    ELSE FALSE

\* os.access(path, os.W_OK) / os.access(path, os.R_OK)
os_access(f, path, bit) ==
    IF path = Dot THEN (IF bit = "W" THEN f.cwdW ELSE TRUE)
    ELSE IF path \in FsPaths /\ f.node[path].kind # "none"
         THEN (IF bit = "W" THEN f.node[path].w ELSE f.node[path].r)
    ELSE FALSE

\* os.makedirs(dir_path, exist_ok=True): [ok, fs]
makedirs(f, dir_path) ==
    IF path_isdir(f, dir_path) THEN [ok |-> TRUE, fs |-> f]
    ELSE IF path_exists(f, dir_path) THEN [ok |-> FALSE, fs |-> f]
    ELSE IF dir_path \in FsPaths /\ os_access(f, dirname_or_dot(dir_path), "W")
         THEN [ok |-> TRUE, fs |-> [f EXCEPT !.node[dir_path] = NewDir]]
    ELSE [ok |-> FALSE, fs |-> f]

\* the builtin open(path, m, encoding='utf-8'), m in r / w / a: [err, fs]
builtin_open(f, path, m) ==
    IF m = "r"
    THEN IF ~path_exists(f, path) THEN [err |-> "FileNotFoundError", fs |-> f]
         ELSE IF path_isdir(f, path) THEN [err |-> "IsADirectoryError", fs |-> f]
         ELSE IF ~os_access(f, path, "R") THEN [err |-> "PermissionError", fs |-> f]
         ELSE [err |-> "none", fs |-> f]
    ELSE IF path_isdir(f, path) THEN [err |-> "IsADirectoryError", fs |-> f]
    ELSE IF path_exists(f, path)
         THEN IF ~os_access(f, path, "W") THEN [err |-> "PermissionError", fs |-> f]
              ELSE [err |-> "none",
                    fs |-> IF m = "w" THEN [f EXCEPT !.node[path].data = <<>>] ELSE f]
    ELSE IF ~path_exists(f, dirname_or_dot(path))
         THEN [err |-> "FileNotFoundError", fs |-> f]
    ELSE IF ~path_isdir(f, dirname_or_dot(path))
         THEN [err |-> "NotADirectoryError", fs |-> f]
    ELSE IF ~os_access(f, dirname_or_dot(path), "W")
         THEN [err |-> "PermissionError", fs |-> f]
    ELSE [err |-> "none", fs |-> [f EXCEPT !.node[path] = NewFile]]

\* file.write(content) on a text stream, flushed when the stream is closed:
\* the translated text lands at the stream's position, the end of the file
stream_write(f, path, content) ==
    [f EXCEPT !.node[path].data = @ \o TranslateOut(content)]

\* file.read() on a text stream opened at the start of the file
stream_read(f, path) == TranslateIn(f.node[path].data)

(* --------------------------- link patterns ---------------------------- *)

Scheme == {"http://", "https://"}
\* the characters the character classes of the patterns exclude
AttrStop == {QUOTE}
CssStop == {QUOTE, ")"}
GeneralStop == {" ", LF, CR, "<", ">", QUOTE}

At(s, i) == IF i \in 1..Len(s) THEN s[i] ELSE ""

\* the last index of the longest run of tokens outside stop that starts at
\* i (i - 1 when the run is empty): a greedy [^...]+
RunEnd(s, i, stop) ==
    LET bad == {k \in i..Len(s) : s[k] \in stop}
    IN IF bad = {} THEN Len(s) ELSE (CHOOSE k \in bad : \A j \in bad : k <= j) - 1

NoMatch == [ok |-> FALSE, end |-> 0, group |-> <<>>]

\* attr=["'](https?://[^"']+)["'] tried at position i
MatchAttr(attr, s, i) ==
    LET e == RunEnd(s, i + 3, AttrStop)
    IN IF /\ At(s, i) = attr
          /\ At(s, i + 1) = QUOTE
          /\ At(s, i + 2) \in Scheme
          /\ e >= i + 3
          /\ At(s, e + 1) = QUOTE
       THEN [ok |-> TRUE, end |-> e + 1, group |-> SubSeq(s, i + 2, e)]
       ELSE NoMatch

\* url\(["']?(https?://[^"')]+)["']?\) tried at position i
MatchCss(s, i) ==
    LET k == IF At(s, i + 1) = QUOTE THEN i + 2 ELSE i + 1
        e == RunEnd(s, k + 1, CssStop)
        j == IF At(s, e + 1) = QUOTE THEN e + 2 ELSE e + 1
    IN IF /\ At(s, i) = "url("
          /\ At(s, k) \in Scheme
          /\ e >= k + 1
          /\ At(s, j) = ")"
       THEN [ok |-> TRUE, end |-> j, group |-> SubSeq(s, k, e)]
       ELSE NoMatch

\* https?://[^\s<>"']+ tried at position i
MatchGeneral(s, i) ==
    LET e == RunEnd(s, i + 1, GeneralStop)
    IN IF At(s, i) \in Scheme /\ e >= i + 1
       THEN [ok |-> TRUE, end |-> e, group |-> SubSeq(s, i, e)]
       ELSE NoMatch

MatchAt(pattern, s, i) ==
    CASE pattern = "href" -> MatchAttr("href=", s, i)
      [] pattern = "src" -> MatchAttr("src=", s, i)
      [] pattern = "css" -> MatchCss(s, i)
      [] OTHER -> MatchGeneral(s, i)

\* re.findall(pattern, html): the groups of the non-overlapping matches,
\* scanning left to right
RECURSIVE FindAllFrom(_, _, _)
FindAllFrom(pattern, s, i) ==
    IF i > Len(s) THEN {}
    ELSE LET m == MatchAt(pattern, s, i)
         IN IF m.ok THEN {m.group} \cup FindAllFrom(pattern, s, m.end + 1)
            ELSE FindAllFrom(pattern, s, i + 1)

findall(pattern, s) == FindAllFrom(pattern, s, 1)

\* the set count_urls builds from a fetched page
FoundUrls(html) ==
    findall("href", html) \cup findall("src", html) \cup findall("css", html)
        \cup findall("general", html)

(* ------------------------------ MyFile -------------------------------- *)

\* mode.lower() on the mode names the model passes to the constructor
Lower(mode) ==
    CASE mode = "WRITE" -> "write"
      [] mode = "Url" -> "url"
      [] OTHER -> mode

valid_modes == {"read", "write", "append", "url"}
url_patterns == {"http://", "https://", "ftp://", "file://"}

\* path.startswith(pattern) for one of the url_patterns
is_url(path) == path # <<>> /\ Head(path) \in url_patterns

\* a _file_exists without the os.path.isdir test
file_exists_any(f, filepath) == path_exists(f, filepath)

file_exists(f, filepath) ==
    IF path_isdir(f, filepath) THEN FALSE ELSE path_exists(f, filepath)

\* What a request answers: "200"; "204", another status urlopen returns
\* without raising; "404" and "500", an HTTPError; "refused", a URLError;
\* "timeout"; "error", any other exception.
NetOutcomes == {"200", "204", "404", "500", "refused", "timeout", "error"}

\* a probe that takes every HTTP error status for "unavailable"
check_url_availability_strict(o) == o = "200"

\* _check_url_availability, given what its request answers
check_url_availability(o) ==
    CASE o = "200" -> TRUE
      [] o = "204" -> FALSE
      [] o = "404" -> FALSE
      [] o = "500" -> TRUE
      [] OTHER -> FALSE

\* _check_file_access: [ok, fs, mkdirs]; mkdirs counts the directories made
\* lines 84-90: the answer once the directory is there
access_write(f1, filepath, n) ==
    [ok |-> IF path_exists(f1, filepath) THEN os_access(f1, filepath, "W")
            ELSE os_access(f1, dirname_or_dot(filepath), "W"),
     fs |-> f1, mkdirs |-> n]

\* lines 79-82: after os.makedirs answered mk
access_made(f, filepath, mk) ==
    IF ~mk.ok THEN [ok |-> FALSE, fs |-> f, mkdirs |-> 0]
    ELSE access_write(mk.fs, filepath, 1)

check_file_access(f, filepath, m) ==
    IF m \in {"w", "a"}
    THEN IF dirname(filepath) # <<>> /\ ~path_exists(f, dirname(filepath))
         THEN access_made(f, filepath, makedirs(f, dirname(filepath)))
         ELSE access_write(f, filepath, 0)
    ELSE IF m = "r" THEN [ok |-> os_access(f, filepath, "R"), fs |-> f, mkdirs |-> 0]
    ELSE [ok |-> TRUE, fs |-> f, mkdirs |-> 0]

\* The stream state of a handle: file is self.file ("none", "open" or
\* "closed"); unref counts the streams that are still open although self.file
\* no longer refers to them.
\* self.file = open(...): the stream self.file referred to is dropped
Rebind(file, unref) == IF file = "open" THEN unref + 1 ELSE unref

\* _open_file: [exc, fs, file, unref, opened, mkdirs]
open_fail(e, f1, file, unref, n) ==
    [exc |-> e, fs |-> f1, file |-> file, unref |-> unref, opened |-> 0,
     mkdirs |-> n]

\* self.file = open(...), o what open answered
open_bind(o, file, unref, n) ==
    IF o.err # "none" THEN open_fail(o.err, o.fs, file, unref, n)
    ELSE [exc |-> "none", fs |-> o.fs, file |-> "open",
          unref |-> Rebind(file, unref), opened |-> 1, mkdirs |-> n]

\* the write and append branches, c what _check_file_access answered
open_checked(self, file, unref, m, c) ==
    IF ~c.ok THEN open_fail("PermissionError", c.fs, file, unref, c.mkdirs)
    ELSE open_bind(builtin_open(c.fs, self.path, m), file, unref, c.mkdirs)

\* an _open_file whose append branch opens with 'w'
open_file_truncating(f, self, file, unref) ==
    IF self.mode = "read"
    THEN IF ~file_exists(f, self.path)
         THEN open_fail("FileNotFoundError", f, file, unref, 0)
         ELSE IF ~check_file_access(f, self.path, "r").ok
         THEN open_fail("PermissionError", f, file, unref, 0)
         ELSE open_bind(builtin_open(f, self.path, "r"), file, unref, 0)
    ELSE IF self.mode \in {"write", "append"}
    THEN open_checked(self, file, unref, "w", check_file_access(f, self.path, "w"))
    ELSE open_fail("none", f, file, unref, 0)

open_file(f, self, file, unref) ==
    IF self.mode = "read"
    THEN IF ~file_exists(f, self.path)
         THEN open_fail("FileNotFoundError", f, file, unref, 0)
         ELSE IF ~check_file_access(f, self.path, "r").ok
         THEN open_fail("PermissionError", f, file, unref, 0)
         ELSE open_bind(builtin_open(f, self.path, "r"), file, unref, 0)
    ELSE IF self.mode = "write"
    THEN open_checked(self, file, unref, "w", check_file_access(f, self.path, "w"))
    ELSE IF self.mode = "append"
    THEN open_checked(self, file, unref, "a", check_file_access(f, self.path, "a"))
    ELSE open_fail("none", f, file, unref, 0)

\* _close_file
close_file(file) == IF file = "open" THEN "closed" ELSE file

\* What a method call leaves behind.
Outcome(exc, f, file, unref, text, num, opened, net, mkdirs) ==
    [exc |-> exc, fs |-> f, file |-> file, unref |-> unref, text |-> text,
     num |-> num, opened |-> opened, net |-> net, mkdirs |-> mkdirs]

\* read(), lines 131-141: o what _open_file did
read_opened(self, o) ==
    IF o.exc \in {"FileNotFoundError", "PermissionError"}
    THEN Outcome(o.exc, o.fs, close_file(o.file), o.unref, <<>>, 0, o.opened, 0,
                 o.mkdirs)
    ELSE IF o.exc # "none"
    THEN Outcome("IOError", o.fs, close_file(o.file), o.unref, <<>>, 0, o.opened,
                 0, o.mkdirs)
    ELSE Outcome("none", o.fs, close_file(o.file), o.unref,
                 stream_read(o.fs, self.path), 0, o.opened, 0, o.mkdirs)

read(f, self, file, unref) ==
    IF self.mode # "read"
    THEN Outcome("ValueError", f, file, unref, <<>>, 0, 0, 0, 0)
    ELSE IF ~file_exists(f, self.path)
    THEN Outcome("FileNotFoundError", f, file, unref, <<>>, 0, 0, 0, 0)
    ELSE read_opened(self, open_file(f, self, file, unref))

\* write(content), lines 153-162: o what _open_file did, n the directories
\* made before it
write_opened(self, content, o, n) ==
    IF o.exc = "PermissionError"
    THEN Outcome(o.exc, o.fs, close_file(o.file), o.unref, <<>>, 0, o.opened, 0,
                 n + o.mkdirs)
    ELSE IF o.exc # "none"
    THEN Outcome("IOError", o.fs, close_file(o.file), o.unref, <<>>, 0, o.opened,
                 0, n + o.mkdirs)
    ELSE Outcome("none", stream_write(o.fs, self.path, content),
                 close_file(o.file), o.unref, <<>>, 1, o.opened, 0, n + o.mkdirs)

\* lines 150-154: c what _check_file_access answered
write_checked(self, file, unref, content, c) ==
    IF ~c.ok
    THEN Outcome("PermissionError", c.fs, file, unref, <<>>, 0, 0, 0, c.mkdirs)
    ELSE write_opened(self, content, open_file(c.fs, self, file, unref), c.mkdirs)

write(f, self, file, unref, content) ==
    IF self.mode \notin {"write", "append"}
    THEN Outcome("ValueError", f, file, unref, <<>>, 0, 0, 0, 0)
    ELSE write_checked(self, file, unref, content,
                       check_file_access(f, self.path,
                                         IF self.mode = "write" THEN "w" ELSE "a"))

\* lines 173-213: the fetch, given what it answers (o2) and the page the
\* server holds.  The body is taken as the text it decodes to: iso-8859-1,
\* the last encoding tried, decodes any bytes.  A timeout is a TimeoutError
\* or a URLError and ends in ConnectionError like the HTTP errors; any other
\* exception ends in IOError.
fetch(f, file, unref, o2, page) ==
    IF o2 = "200" THEN Outcome("none", f, file, unref, page, 0, 0, 2, 0)
    ELSE IF o2 \in {"204", "404", "500", "refused", "timeout"}
    THEN Outcome("ConnectionError", f, file, unref, <<>>, 0, 0, 2, 0)
    ELSE Outcome("IOError", f, file, unref, <<>>, 0, 0, 2, 0)

\* a read_url that does not look at the mode
read_url_unchecked(f, self, file, unref, o1, o2, page) ==
    IF ~check_url_availability(o1)
    THEN Outcome("ConnectionError", f, file, unref, <<>>, 0, 0, 1, 0)
    ELSE fetch(f, file, unref, o2, page)

\* read_url(), given what the probe answers (o1)
read_url(f, self, file, unref, o1, o2, page) ==
    IF self.mode # "url"
    THEN Outcome("ValueError", f, file, unref, <<>>, 0, 0, 0, 0)
    ELSE IF ~check_url_availability(o1)
    THEN Outcome("ConnectionError", f, file, unref, <<>>, 0, 0, 1, 0)
    ELSE fetch(f, file, unref, o2, page)

\* a count_urls that lets the failure of read_url through
count_fetched_raising(r) ==
    IF r.exc = "none"
    THEN Outcome("none", r.fs, r.file, r.unref, <<>>,
                 Cardinality(FoundUrls(r.text)), 0, r.net, 0)
    ELSE Outcome(r.exc, r.fs, r.file, r.unref, <<>>, 0, 0, r.net, 0)

\* count_urls(), lines 220-247: r what read_url did
count_fetched(r) ==
    IF r.exc = "none"
    THEN Outcome("none", r.fs, r.file, r.unref, <<>>,
                 Cardinality(FoundUrls(r.text)), 0, r.net, 0)
    ELSE Outcome("none", r.fs, r.file, r.unref, <<>>, 0, 0, r.net, 0)

count_urls(f, self, file, unref, o1, o2, page) ==
    IF self.mode # "url"
    THEN Outcome("ValueError", f, file, unref, <<>>, 0, 0, 0, 0)
    ELSE count_fetched(read_url(f, self, file, unref, o1, o2, page))

\* write_url(filepath), lines 269-279: w what file_writer.write did
url_written(file, unref, w, net) ==
    IF w.exc = "PermissionError"
    THEN Outcome("PermissionError", w.fs, file, unref, <<>>, 0, w.opened, net,
                 w.mkdirs)
    ELSE IF w.exc # "none"
    THEN Outcome("IOError", w.fs, file, unref, <<>>, 0, w.opened, net, w.mkdirs)
    ELSE Outcome("none", w.fs, file, unref, <<>>, w.num, w.opened, net, w.mkdirs)

\* lines 265-269: r what read_url did; file_writer is MyFile(filepath, "write")
url_fetched(filepath, r) ==
    IF r.exc = "ConnectionError"
    THEN Outcome("ConnectionError", r.fs, r.file, r.unref, <<>>, 0, 0, r.net, 0)
    ELSE IF r.exc # "none"
    THEN Outcome("IOError", r.fs, r.file, r.unref, <<>>, 0, 0, r.net, 0)
    ELSE url_written(r.file, r.unref,
                     write(r.fs, [path |-> filepath, mode |-> Lower("write")],
                           "none", 0, r.text),
                     r.net)

\* lines 255-261: may the destination be written
url_denied(f, filepath) ==
    IF path_exists(f, filepath) THEN ~check_file_access(f, filepath, "w").ok
    ELSE ~os_access(f, dirname_or_dot(filepath), "W")

\* a write_url that leaves the check of the destination to the write
write_url_fetch_first(f, self, file, unref, filepath, o1, o2, page) ==
    IF self.mode # "url"
    THEN Outcome("ValueError", f, file, unref, <<>>, 0, 0, 0, 0)
    ELSE url_fetched(filepath, read_url(f, self, file, unref, o1, o2, page))

\* a write_url that opens the destination for writing before it fetches
write_url_open_first(f, self, file, unref, filepath, o1, o2, page) ==
    IF self.mode # "url"
    THEN Outcome("ValueError", f, file, unref, <<>>, 0, 0, 0, 0)
    ELSE IF url_denied(f, filepath)
    THEN Outcome("PermissionError", f, file, unref, <<>>, 0, 0, 0, 0)
    ELSE url_fetched(filepath,
                     read_url(builtin_open(f, filepath, "w").fs, self, file,
                              unref, o1, o2, page))

write_url(f, self, file, unref, filepath, o1, o2, page) ==
    IF self.mode # "url"
    THEN Outcome("ValueError", f, file, unref, <<>>, 0, 0, 0, 0)
    ELSE IF url_denied(f, filepath)
    THEN Outcome("PermissionError", f, file, unref, <<>>, 0, 0, 0, 0)
    ELSE url_fetched(filepath, read_url(f, self, file, unref, o1, o2, page))

\* a constructor that probes the address before it looks at its scheme
init_probe_first(f, path, mode, o) ==
    IF Lower(mode) \notin valid_modes THEN [exc |-> "ValueError", net |-> 0]
    ELSE IF Lower(mode) = "read" /\ ~file_exists(f, path)
    THEN [exc |-> "FileNotFoundError", net |-> 0]
    ELSE IF Lower(mode) = "url" /\ ~check_url_availability(o)
    THEN [exc |-> "ConnectionError", net |-> 1]
    ELSE IF Lower(mode) = "url" /\ ~is_url(path)
    THEN [exc |-> "ValueError", net |-> 1]
    ELSE [exc |-> "none", net |-> IF Lower(mode) = "url" THEN 1 ELSE 0]

\* MyFile(path, mode), given what the probe answers: [exc, net]
init(f, path, mode, o) ==
    IF Lower(mode) \notin valid_modes THEN [exc |-> "ValueError", net |-> 0]
    ELSE IF Lower(mode) = "read" /\ ~file_exists(f, path)
    THEN [exc |-> "FileNotFoundError", net |-> 0]
    ELSE IF Lower(mode) = "url" /\ ~is_url(path)
    THEN [exc |-> "ValueError", net |-> 0]
    ELSE IF Lower(mode) = "url" /\ ~check_url_availability(o)
    THEN [exc |-> "ConnectionError", net |-> 1]
    ELSE [exc |-> "none", net |-> IF Lower(mode) = "url" THEN 1 ELSE 0]

\* __enter__
enter_opened(o) ==
    Outcome(o.exc, o.fs, o.file, o.unref, <<>>, 0, o.opened, 0, o.mkdirs)

enter(f, self, file, unref) ==
    IF self.mode \in {"read", "write", "append"}
    THEN enter_opened(open_file(f, self, file, unref))
    ELSE Outcome("none", f, file, unref, <<>>, 0, 0, 0, 0)

\* __exit__
exit(f, self, file, unref) ==
    IF self.mode \in {"read", "write", "append"}
    THEN Outcome("none", f, close_file(file), unref, <<>>, 0, 0, 0, 0)
    ELSE Outcome("none", f, file, unref, <<>>, 0, 0, 0, 0)

(* --------------------------- the accessor ----------------------------- *)

VARIABLES
    fs,       \* the file system: [cwdW, node]
    h,        \* the handle the caller holds: [path, mode]
    file,     \* its self.file: "none", "open" or "closed"
    unref,    \* open streams no handle refers to any more
    last,     \* the call made last and what it did
    pending,  \* the write-mode write made last, while nothing else has run
    log,      \* per path: what append-mode writes alone have put there
    menu      \* the interactive menu: where it waits, what it has been told

vars == <<fs, h, file, unref, last, pending, log, menu>>

U == <<"http://", "u">>
NoHandle == [path |-> <<>>, mode |-> "none"]
NoPending == [path |-> <<>>, content |-> <<>>]
FreshLog == [ok |-> TRUE, text |-> <<>>]
\* the menu at its main prompt; clobbered tells whether the operation run
\* last overwrote an existing file: "no", "confirmed" or "unconfirmed"
AtMenu(clobbered) ==
    [pc |-> "menu", content |-> <<>>, dest |-> <<>>, clobbered |-> clobbered]

\* the arguments the model calls with
ModeArgs == {"read", "WRITE", "append", "exec"}
\* XU holds a scheme, but not at its start
XU == <<"x", "http://", "u">>
UrlArgs == {U, P, XU}
Contents == {<<>>, <<"a">>, <<CR, LF>>}
Pages == {<<"a">>, <<"href=", QUOTE, "http://", "a", QUOTE>>}

\* page is the page a fetch answered with
Call(op, arg, marg, out, o1, o2, page) ==
    [op |-> op, arg |-> arg, marg |-> marg, exc |-> out.exc, text |-> out.text,
     num |-> out.num, opened |-> out.opened, net |-> out.net,
     mkdirs |-> out.mkdirs,
     o1 |-> IF out.net >= 1 THEN o1 ELSE "-",
     o2 |-> IF out.net >= 2 THEN o2 ELSE "-",
     page |-> IF out.net >= 2 /\ o2 = "200" THEN page ELSE <<>>]

Quiet(op) ==
    [op |-> op, arg |-> <<>>, marg |-> "-", exc |-> "none", text |-> <<>>,
     num |-> 0, opened |-> 0, net |-> 0, mkdirs |-> 0, o1 |-> "-", o2 |-> "-",
     page |-> <<>>]

\* a path that holds no file has an empty log; touched marks the paths a
\* call other than an append-mode write may have written
NextLog(f1, touched) ==
    [p \in FsPaths |->
        IF f1.node[p].kind # "file" THEN FreshLog
        ELSE IF p \in touched THEN [ok |-> FALSE, text |-> <<>>]
        ELSE log[p]]

Init ==
    /\ fs = [cwdW |-> TRUE, node |-> [p \in FsPaths |-> NoNode]]
    /\ h = NoHandle
    /\ file = "none"
    /\ unref = 0
    /\ last = Quiet("start")
    /\ pending = NoPending
    /\ log = [p \in FsPaths |-> FreshLog]
    /\ menu = AtMenu("no")

\* x = MyFile(path, mode): the handle held before is dropped, and a stream
\* it left open stays open until it is collected
Construct(path, mode, o) ==
    LET r == init(fs, path, mode, o)
    IN /\ last' = Call("init", path, mode,
                       Outcome(r.exc, fs, file, unref, <<>>, 0, 0, r.net, 0), o, "-",
                       <<>>)
       /\ IF r.exc = "none"
          THEN /\ Rebind(file, unref) <= MaxUnref
               /\ h' = [path |-> path, mode |-> Lower(mode)]
               /\ file' = "none"
               /\ unref' = Rebind(file, unref)
          ELSE UNCHANGED <<h, file, unref>>
       /\ UNCHANGED <<fs, pending, log, menu>>

\* the state a call leaves, but for the ghosts
Apply(out) ==
    /\ out.unref <= MaxUnref
    /\ fs' = out.fs
    /\ file' = out.file
    /\ unref' = out.unref
    /\ UNCHANGED <<h, menu>>

Read ==
    LET out == read(fs, h, file, unref)
    IN /\ h # NoHandle
       /\ Apply(out)
       /\ last' = Call("read", <<>>, "-", out, "-", "-", <<>>)
       /\ pending' = NoPending
       /\ log' = NextLog(out.fs, {})

Write(content) ==
    LET out == write(fs, h, file, unref, content)
    IN /\ h # NoHandle
       /\ h.mode = "append" /\ h.path \in FsPaths
            => Len(fs.node[h.path].data) + Len(content) <= MaxLen
       /\ Apply(out)
       /\ last' = Call("write", content, "-", out, "-", "-", <<>>)
       /\ pending' = IF h.mode = "write" /\ out.exc = "none"
                     THEN [path |-> h.path, content |-> content]
                     ELSE NoPending
       /\ log' = IF h.mode = "append" /\ out.exc = "none"
                 THEN [NextLog(out.fs, {}) EXCEPT
                          ![h.path].text = log[h.path].text \o content]
                 ELSE IF h.mode = "write" THEN NextLog(out.fs, {h.path})
                 ELSE NextLog(out.fs, {})

Enter ==
    LET out == enter(fs, h, file, unref)
    IN /\ h # NoHandle
       /\ Apply(out)
       /\ last' = Call("enter", <<>>, "-", out, "-", "-", <<>>)
       /\ pending' = NoPending
       /\ log' = IF h.mode = "write" THEN NextLog(out.fs, {h.path})
                 ELSE NextLog(out.fs, {})

Exit ==
    LET out == exit(fs, h, file, unref)
    IN /\ h # NoHandle
       /\ Apply(out)
       /\ last' = Call("exit", <<>>, "-", out, "-", "-", <<>>)
       /\ pending' = NoPending
       /\ log' = NextLog(out.fs, {})

ReadUrl(o1, o2, page) ==
    LET out == read_url(fs, h, file, unref, o1, o2, page)
    IN /\ h # NoHandle
       /\ Apply(out)
       /\ last' = Call("read_url", <<>>, "-", out, o1, o2, page)
       /\ pending' = NoPending
       /\ log' = NextLog(out.fs, {})

CountUrls(o1, o2, page) ==
    LET out == count_urls(fs, h, file, unref, o1, o2, page)
    IN /\ h # NoHandle
       /\ Apply(out)
       /\ last' = Call("count_urls", <<>>, "-", out, o1, o2, page)
       /\ pending' = NoPending
       /\ log' = NextLog(out.fs, {})

WriteUrl(filepath, o1, o2, page) ==
    LET out == write_url(fs, h, file, unref, filepath, o1, o2, page)
    IN /\ h # NoHandle
       /\ Apply(out)
       /\ last' = Call("write_url", filepath, "-", out, o1, o2, page)
       /\ pending' = NoPending
       /\ log' = NextLog(out.fs, {filepath})

\* the collector closes the streams nothing refers to (__del__ and the
\* stream's own finalizer)
Collect ==
    /\ unref > 0
    /\ unref' = 0
    /\ last' = Quiet("collect")
    /\ pending' = NoPending
    /\ UNCHANGED <<fs, h, file, log, menu>>

\* the environment: chmod of a file (both bits) or of a directory (the
\* write bit, the only one asked for), chmod of the working directory, mkdir, removal of a file or of a directory with what it holds
Chmod(path, w, r) ==
    /\ fs.node[path].kind # "none"
    /\ fs.node[path].kind = "dir" => r = fs.node[path].r
    /\ fs' = [fs EXCEPT !.node[path].w = w, !.node[path].r = r]
    /\ last' = Quiet("env")
    /\ pending' = NoPending
    /\ UNCHANGED <<h, file, unref, log, menu>>

ChmodCwd(w) ==
    /\ fs' = [fs EXCEPT !.cwdW = w]
    /\ last' = Quiet("env")
    /\ pending' = NoPending
    /\ UNCHANGED <<h, file, unref, log, menu>>

Mkdir(path) ==
    /\ makedirs(fs, path).ok
    /\ ~path_exists(fs, path)
    /\ fs' = makedirs(fs, path).fs
    /\ last' = Quiet("env")
    /\ pending' = NoPending
    /\ UNCHANGED <<h, file, unref, log, menu>>

Remove(path) ==
    /\ fs.node[path].kind # "none"
    /\ fs' = [fs EXCEPT !.node =
                 [p \in FsPaths |->
                     IF p = path \/ dirname(p) = path THEN NoNode ELSE @[p]]]
    /\ last' = Quiet("env")
    /\ pending' = NoPending
    /\ log' = NextLog(fs', {})
    /\ UNCHANGED <<h, file, unref, menu>>

\* The answers a call's requests may get: the fetch is issued only after a
\* probe that passed, and a page is read only from a fetch that answers 200.
FetchOutcomes(o1) == IF check_url_availability(o1) THEN NetOutcomes ELSE {"-"}
PagesOf(o2) == IF o2 = "200" THEN Pages ELSE {<<>>}

Environment ==
    \/ \E path \in CallPaths, w \in BOOLEAN : Chmod(path, w, fs.node[path].r)
    \/ \E w \in BOOLEAN : ChmodCwd(w)
    \/ Mkdir(P)
    \/ \E path \in CallPaths : Remove(path)

\* The data operations of a handle of any mode, over a changing file system
\* and a server that answers each request as it likes.
Next ==
    \/ \E path \in CallPaths, mode \in ModeArgs : Construct(path, mode, "-")
    \/ \E path \in UrlArgs, o \in NetOutcomes : Construct(path, "url", o)
    \/ Read
    \/ Write(<<"a">>)
    \/ \E o1 \in NetOutcomes : \E o2 \in FetchOutcomes(o1) : \E page \in PagesOf(o2) :
          ReadUrl(o1, o2, page)
    \/ \E o1 \in NetOutcomes : \E o2 \in FetchOutcomes(o1) : \E page \in PagesOf(o2) :
          CountUrls(o1, o2, page)
    \/ \E filepath \in CallPaths, o1 \in NetOutcomes :
          \E o2 \in FetchOutcomes(o1) : \E page \in PagesOf(o2) :
             WriteUrl(filepath, o1, o2, page)
    \/ Environment

Spec == Init /\ [][Next]_vars

\* The file side alone: handles in read, write and append mode, used with
\* and without the context manager, every content written.
NextFile ==
    \/ \E path \in CallPaths, mode \in ModeArgs : Construct(path, mode, "-")
    \/ Read
    \/ \E content \in Contents : Write(content)
    \/ Enter
    \/ Exit
    \/ Collect
    \/ \E path \in CallPaths, r \in BOOLEAN : Chmod(path, fs.node[path].w, r)
    \/ Environment

SpecFile == Init /\ [][NextFile]_vars

\* The link counter alone: a url-mode handle over a server whose page is any
\* sequence of up to MaxFrags fragments, each a link in one of the places
\* count_urls looks at, or a relative link, a blank after each.
PageLinks == {<<"http://", "a">>, <<"https://", "b">>}

Fragments ==
    {<<"href=", QUOTE>> \o l \o <<QUOTE>> : l \in PageLinks}
        \cup {<<"src=", QUOTE>> \o l \o <<QUOTE>> : l \in PageLinks}
        \cup {<<"url(", QUOTE>> \o l \o <<QUOTE, ")">> : l \in PageLinks}
        \cup {<<"url(">> \o l \o <<")">> : l \in PageLinks}
        \cup PageLinks
        \cup {<<"href=", QUOTE, "a", QUOTE>>}

RECURSIVE Render(_)
Render(frs) ==
    IF frs = <<>> THEN <<>> ELSE Head(frs) \o <<" ">> \o Render(Tail(frs))

GenPages == {Render(frs) : frs \in UNION {[1..n -> Fragments] : n \in 0..MaxFrags}}

NextCount ==
    \/ \E o \in NetOutcomes : Construct(U, "url", o)
    \/ \E page \in GenPages : CountUrls("200", "200", page)

SpecCount == Init /\ [][NextCount]_vars

(* ------------------------------ the menu ------------------------------ *)

\* mode_map of file_operations, "" for a choice it does not hold
mode_map(choice) ==
    CASE choice = "1" -> "read"
      [] choice = "2" -> "write"
      [] choice = "3" -> "append"
      [] OTHER -> ""

\* "\n".join(lines)
RECURSIVE join(_)
join(lines) ==
    IF lines = <<>> THEN <<>>
    ELSE IF Len(lines) = 1 THEN Head(lines)
    ELSE Head(lines) \o <<LF>> \o join(Tail(lines))

\* answer.strip().lower() on the answers the model gives
strip_lower(answer) ==
    CASE answer = "Y" -> "y"
      [] answer = " y " -> "y"
      [] answer = "N" -> "n"
      [] OTHER -> answer

\* lines 410-411: a URL typed without http:// or https:// gets https://
with_scheme(url) ==
    IF Head(url) \in {"http://", "https://"} THEN url ELSE <<"https://">> \o url

\* the tokens of s before the first "/"
RECURSIVE UpToSlash(_)
UpToSlash(s) ==
    IF s = <<>> \/ Head(s) = "/" THEN <<>>
    ELSE <<IF Head(s) = "." THEN "_" ELSE Head(s)>> \o UpToSlash(Tail(s))

\* lines 474-475: url.split("//")[-1].split("/")[0].replace('.', '_') and
\* "_content.html" after it, for a URL that holds "//" in its scheme only
default_name(url) == UpToSlash(Tail(url)) \o <<"_content.html">>

\* the inputs the model types
Choices == {"1", "2", "3", "9"}
Answers == {"y", "Y", "n", ""}
LineInputs == {<<>>, <<<<"a">>>>, <<<<"a">>, <<"a">>>>}
UrlInputs == {U, <<"u">>}
SavePaths == {<<>>, P, D}

\* "proceed?" is asked only when the first probe raised
AnswersAfter(o0) == IF o0 \in {"200", "204"} THEN {""} ELSE Answers

\* whether a call that opened path for writing overwrote a file, and whether
\* the user had said 'y'
Clobber(f, path, truncates, out, yes) ==
    IF f.node[path].kind = "file" /\ truncates /\ out.opened > 0
    THEN (IF yes THEN "confirmed" ELSE "unconfirmed")
    ELSE "no"

\* the operation returns to the main prompt without a call to the accessor
MenuReturn ==
    /\ menu' = AtMenu("no")
    /\ h' = NoHandle
    /\ file' = "none"
    /\ last' = Quiet("menu")
    /\ pending' = NoPending
    /\ UNCHANGED <<fs, unref, log>>

\* the operation makes its last call to the accessor, out, and returns
MenuDone(op, arg, out, o1, o2, page, clobbered) ==
    /\ menu' = AtMenu(clobbered)
    /\ h' = NoHandle
    /\ file' = "none"
    /\ fs' = out.fs
    /\ last' = Call(op, arg, "-", out, o1, o2, page)
    /\ pending' = NoPending
    /\ log' = NextLog(out.fs, IF op \in {"write", "write_url"} THEN {arg} ELSE {})
    /\ UNCHANGED unref

\* the operation holds a handle and waits for the next input
MenuWait(pc, self, content, dest) ==
    /\ menu' = [pc |-> pc, content |-> content, dest |-> dest, clobbered |-> "no"]
    /\ h' = self
    /\ file' = "none"
    /\ last' = Quiet("menu")
    /\ pending' = NoPending
    /\ UNCHANGED <<fs, unref, log>>

\* file_operations, lines 311-355: the path, the mode, the handle, the read
MenuFileOp(file_path, mode_choice) ==
    /\ menu.pc = "menu"
    /\ IF mode_map(mode_choice) = "" THEN MenuReturn
       ELSE IF init(fs, file_path, mode_map(mode_choice), "-").exc # "none"
       THEN MenuReturn
       ELSE IF mode_map(mode_choice) = "read"
       THEN MenuDone("read", file_path,
                     read(fs, [path |-> file_path, mode |-> "read"], "none", unref),
                     "-", "-", <<>>, "no")
       ELSE MenuWait("content",
                     [path |-> file_path, mode |-> Lower(mode_map(mode_choice))],
                     <<>>, <<>>)

\* lines 380-384: file_obj.write(content)
MenuWrite(content, yes) ==
    MenuDone("write", h.path, write(fs, h, file, unref, content), "-", "-", <<>>,
             Clobber(fs, h.path, h.mode = "write",
                     write(fs, h, file, unref, content), yes))

\* lines 362-381: the content, then the prompt or the write
MenuContent(lines) ==
    /\ menu.pc = "content"
    /\ h.mode = "append" => Len(fs.node[h.path].data) + Len(join(lines)) <= MaxLen
    /\ IF h.mode = "write" /\ path_exists(fs, h.path)
       THEN MenuWait("confirm", h, join(lines), <<>>)
       ELSE MenuWrite(join(lines), FALSE)

\* lines 375-381: the answer to "overwrite?"
MenuConfirm(answer) ==
    /\ menu.pc = "confirm"
    /\ IF strip_lower(answer) # "y" THEN MenuReturn
       ELSE MenuWrite(menu.content, TRUE)

\* url_operations, lines 396-436: the URL, the first probe (o0), the answer
\* to "proceed?", the handle (probe o)
MenuUrlOp(url, o0, proceed, o) ==
    /\ menu.pc = "menu"
    /\ IF o0 \notin {"200", "204"} /\ strip_lower(proceed) # "y" THEN MenuReturn
       ELSE IF init(fs, with_scheme(url), "url", o).exc # "none" THEN MenuReturn
       ELSE MenuWait("operation", [path |-> with_scheme(url), mode |-> "url"],
                     <<>>, <<>>)

\* lines 444-468 and 506-507: the operation chosen
MenuOperation(operation, o1, o2, page) ==
    /\ menu.pc = "operation"
    /\ IF operation = "1"
       THEN MenuDone("read_url", <<>>, read_url(fs, h, file, unref, o1, o2, page),
                     o1, o2, page, "no")
       ELSE IF operation = "2"
       THEN MenuDone("count_urls", <<>>,
                     count_urls(fs, h, file, unref, o1, o2, page), o1, o2, page, "no")
       ELSE IF operation = "3" THEN MenuWait("save_path", h, <<>>, <<>>)
       ELSE MenuReturn

\* lines 493-504: url_obj.write_url(save_path)
MenuSave(dest, yes, o1, o2, page) ==
    MenuDone("write_url", dest,
             write_url(fs, h, file, unref, dest, o1, o2, page), o1, o2, page,
             Clobber(fs, dest, TRUE,
                     write_url(fs, h, file, unref, dest, o1, o2, page), yes))

\* lines 470-494: one round of the loop that asks for the path to save to
MenuSavePath(save_path, o1, o2, page) ==
    /\ menu.pc = "save_path"
    /\ IF save_path = <<>> THEN MenuSave(default_name(h.path), FALSE, o1, o2, page)
       ELSE IF path_isdir(fs, save_path) THEN MenuWait("save_path", h, <<>>, <<>>)
       ELSE IF path_exists(fs, save_path)
       THEN MenuWait("confirm_save", h, <<>>, save_path)
       ELSE MenuSave(save_path, FALSE, o1, o2, page)

\* lines 485-494: the answer to "overwrite?"
MenuConfirmSave(answer, o1, o2, page) ==
    /\ menu.pc = "confirm_save"
    /\ IF strip_lower(answer) # "y" THEN MenuWait("save_path", h, <<>>, <<>>)
       ELSE MenuSave(menu.dest, TRUE, o1, o2, page)

NextMenu ==
    \/ \E file_path \in CallPaths, mode_choice \in Choices :
          MenuFileOp(file_path, mode_choice)
    \/ \E lines \in LineInputs : MenuContent(lines)
    \/ \E answer \in Answers : MenuConfirm(answer)
    \/ \E url \in UrlInputs, o0 \in NetOutcomes :
          \E proceed \in AnswersAfter(o0), o \in NetOutcomes :
             MenuUrlOp(url, o0, proceed, o)
    \/ \E operation \in Choices, o1 \in NetOutcomes :
          \E o2 \in FetchOutcomes(o1) : \E page \in PagesOf(o2) :
             MenuOperation(operation, o1, o2, page)
    \/ \E save_path \in SavePaths, o1 \in NetOutcomes :
          \E o2 \in FetchOutcomes(o1) : \E page \in PagesOf(o2) :
             MenuSavePath(save_path, o1, o2, page)
    \/ \E answer \in Answers, o1 \in NetOutcomes :
          \E o2 \in FetchOutcomes(o1) : \E page \in PagesOf(o2) :
             MenuConfirmSave(answer, o1, o2, page)

SpecMenu == Init /\ [][NextMenu]_vars

(* ------------------------------ claims -------------------------------- *)

\* the call made last raised the usage error and did nothing else
Refused ==
    /\ last.exc = "ValueError"
    /\ last.opened = 0
    /\ last.mkdirs = 0
    /\ last.net = 0

\* the modes a data operation is accepted in
OwnModes(op) ==
    CASE op = "read" -> {"read"}
      [] op = "write" -> {"write", "append"}
      [] OTHER -> {"url"}

DataOps == {"read", "write", "read_url", "count_urls", "write_url"}

\* C1: a data operation called on a handle of another mode than its own
\* raises ValueError before a stream is opened, a directory is made or a
\* request is sent, and in its own mode it never raises ValueError.
C1_ModeChecked ==
    last.op \in DataOps =>
        IF h.mode \in OwnModes(last.op) THEN last.exc # "ValueError" ELSE Refused

C1_Witness ==
    /\ last.op = "write_url"
    /\ h.mode = "append"
    /\ Refused
    /\ fs.node[last.arg].kind = "none"

\* C2 (as claimed): between the calls on a handle no stream it opened is
\* open: self.file is not an open stream and no open stream is left behind.
C2_StreamsClosed == file # "open" /\ unref = 0

\* C3 (as claimed): a read through a fresh read-mode handle that follows a
\* write-mode write to the same path at once returns the content written.
C3_RoundTrip ==
    [][(/\ last'.op = "read"
        /\ last'.exc = "none"
        /\ pending # NoPending
        /\ pending.path = h.path) => last'.text = pending.content]_vars

\* C4: a file that only append-mode writes have written since its path did
\* not exist holds the contents written, in call order, nothing in between.
C4_AppendConcatenates ==
    \A p \in FsPaths :
        fs.node[p].kind = "file" /\ log[p].ok => fs.node[p].data = log[p].text

C4_Witness ==
    /\ last.op = "write"
    /\ h = [path |-> PQ, mode |-> "append"]
    /\ log[PQ].ok
    /\ fs.node[PQ].data = <<"a", CR, LF>>

\* the destination is an existing file without write permission, or does not
\* exist while its directory is there and not writable
NotWritable(f, path) ==
    \/ f.node[path].kind = "file" /\ ~f.node[path].w
    \/ /\ f.node[path].kind = "none"
       /\ IF path = PQ THEN f.node[P].kind = "dir" /\ ~f.node[P].w ELSE ~f.cwdW

\* C5: write_url on a destination that is not writable raises PermissionError
\* and no request, probe or fetch, has been sent.
C5_DeniedBeforeNetwork ==
    [][(/\ last'.op = "write_url"
        /\ h.mode = "url"
        /\ NotWritable(fs, last'.arg))
       => (last'.exc = "PermissionError" /\ last'.net = 0 /\ fs' = fs)]_vars

C5_Witness ==
    /\ last.op = "write_url"
    /\ h.mode = "url"
    /\ last.arg = PQ
    /\ fs.node[PQ].kind = "file" /\ ~fs.node[PQ].w
    /\ last.exc = "PermissionError"
    /\ last.net = 0

\* C6 (as claimed): write_url to p/q while p is missing and can be made makes
\* p, does not raise PermissionError and, when the probe passes and the fetch
\* answers 200, saves the page and returns success.
C6_CreatesParents ==
    [][(/\ last'.op = "write_url"
        /\ h.mode = "url"
        /\ last'.arg = PQ
        /\ fs.node[P].kind = "none"
        /\ fs.cwdW)
       => (/\ fs'.node[P].kind = "dir"
           /\ last'.exc # "PermissionError"
           /\ last'.o2 = "200" =>
                 /\ last'.exc = "none"
                 /\ last'.num = 1
                 /\ fs'.node[PQ].kind = "file")]_vars

\* C7: MyFile(url, "url") over a string with a recognized scheme succeeds
\* exactly when the probe answers 200 or an HTTP error status other than 404;
\* otherwise it raises ConnectionError, for a 404 as for a timeout.
C7_ProbeDecides ==
    (last.op = "init" /\ last.marg = "url" /\ Head(last.arg) \in url_patterns) =>
        /\ last.o1 \in NetOutcomes
        /\ last.exc = (IF last.o1 \in {"200", "500"} THEN "none" ELSE "ConnectionError")
        /\ last.exc = "none" => h = [path |-> last.arg, mode |-> "url"]

C7_Witness ==
    /\ last.op = "init"
    /\ last.marg = "url"
    /\ last.arg = U
    /\ last.o1 = "500"
    /\ last.exc = "none"
    /\ h = [path |-> U, mode |-> "url"]

\* C9: count_urls on a url-mode handle never raises, and returns 0 whenever
\* the probe fails or the fetch does not answer 200.
C9_FailureCountsZero ==
    (last.op = "count_urls" /\ h.mode = "url") =>
        /\ last.exc = "none"
        /\ (last.o1 \notin {"200", "500"} \/ last.o2 # "200") => last.num = 0

C9_Witness ==
    /\ last.op = "count_urls"
    /\ h.mode = "url"
    /\ last.o1 = "500"
    /\ last.o2 = "timeout"
    /\ last.exc = "none"
    /\ last.num = 0

\* C11: MyFile(path, "read") over a path that is missing or names a
\* directory raises FileNotFoundError, and the construction opens no stream:
\* the streams that were open before are the ones open after.
C11_ReadNeedsFile ==
    [][(/\ last'.op = "init"
        /\ Lower(last'.marg) = "read"
        /\ fs.node[last'.arg].kind \in {"none", "dir"})
       => (/\ last'.exc = "FileNotFoundError"
           /\ last'.opened = 0
           /\ file' = file
           /\ unref' = unref
           /\ fs' = fs)]_vars

C11_Witness ==
    /\ last.op = "init"
    /\ last.marg = "read"
    /\ last.arg = P
    /\ fs.node[P].kind = "dir"
    /\ last.exc = "FileNotFoundError"
    /\ last.opened = 0

\* C12: MyFile(path, "url") over a string that starts with none of http://,
\* https://, ftp://, file:// raises ValueError, and no request has been sent.
C12_SchemeBeforeProbe ==
    (/\ last.op = "init"
     /\ Lower(last.marg) = "url"
     /\ Head(last.arg) \notin {"http://", "https://", "ftp://", "file://"})
    => (last.exc = "ValueError" /\ last.net = 0 /\ last.o1 = "-")

C12_Witness ==
    /\ last.op = "init"
    /\ last.marg = "url"
    /\ last.arg = XU
    /\ last.exc = "ValueError"
    /\ last.net = 0

\* C13: a write_url that ends with ConnectionError, from the probe or from
\* the fetch, leaves the destination as it was: an existing file keeps its
\* content, a missing one is not created.
C13_FetchBeforeWrite ==
    [][(/\ last'.op = "write_url"
        /\ h.mode = "url"
        /\ last'.exc = "ConnectionError")
       => (/\ last'.net >= 1
           /\ fs'.node[last'.arg] = fs.node[last'.arg])]_vars

C13_Witness ==
    /\ last.op = "write_url"
    /\ h.mode = "url"
    /\ last.exc = "ConnectionError"
    /\ last.net = 2
    /\ last.arg = P
    /\ fs.node[P].kind = "file"
    /\ fs.node[P].data = <<"a">>

\* the links of PageLinks that occur on a page
LinksOn(page) ==
    {l \in PageLinks : \E i \in 1..(Len(page) - 1) : SubSeq(page, i, i + 1) = l}

\* C8 (as claimed): count_urls returns the number of distinct absolute
\* http(s) links of the page fetched, however often and wherever each occurs,
\* and 0 for a page without one.
C8_CountsDistinctLinks ==
    (last.op = "count_urls" /\ h.mode = "url" /\ last.o2 = "200") =>
        last.num = Cardinality(LinksOn(last.page))

\* C10 (as claimed): no operation of the menu overwrites an existing file
\* unless the user answered 'y' to the overwrite prompt in that operation.
C10_NoSilentOverwrite == menu.clobbered # "unconfirmed"

====
